---- MODULE Spec2Model ----
(***************************************************************************)
(* State-machine model of the three programs of the voice_bot repository:  *)
(*   main.py             the PyAudio desktop client (GeminiLiveBot)         *)
(*   app.py              the Streamlit page with a direct browser socket    *)
(*   audio_component.py  the browser component with the playback queue      *)
(* One behaviour runs one of the three programs (variable prog).           *)
(***************************************************************************)
EXTENDS Integers, Sequences, FiniteSets, TLC

\* ------------------------------------------------------------------ bounds
MaxResponses == 2     \* responses delivered by session.receive()
MaxParts == 2         \* parts of one model_turn
MaxFrames == 2        \* microphone frames read by the send loop
MaxSockets == 2       \* WebSockets created by one page
MaxMsgs == 2          \* messages received by the page of app.py
MaxAppFrames == 2     \* onaudioprocess invocations in app.py
MaxCompSockets == 2   \* WebSockets created by the component (reconnects)
MaxChunks == 3        \* audio chunks received by the component
MaxDur == 2           \* longest buffer, in ticks of the audio clock
MaxTime == 6          \* last tick of the audio clock
MaxCompFrames == 2    \* onaudioprocess invocations in the component
MaxMalformed == 1     \* malformed chunks received by the component
MaxLen == 8           \* longest frame given to a resampler, in samples

VARIABLES
    prog,             \* which program runs: "main", "app" or "comp"
    \* ---- main.py
    is_running,       \* GeminiLiveBot.is_running
    input_stream,     \* "None" | "open" | "closed"
    output_stream,    \* "None" | "open" | "closed"
    session,          \* live session: "none" | "open" | "closed"
    runPc,            \* position of run()
    sendPc,           \* position of send_audio_loop
    recvPc,           \* position of receive_audio_loop
    mainPc,           \* position of the __main__ block
    sigint,           \* KeyboardInterrupt was delivered
    first_part,       \* local of receive_audio_loop
    parts,            \* parts of the current response still to handle
    turn_complete,    \* server_content.turn_complete of the current response
    nresp,            \* responses taken from session.receive()
    delivered,        \* ids of the inline_data parts delivered, in order
    written,          \* ids passed to output_stream.write, in order
    captured,         \* frames read from the microphone
    errors,           \* error messages printed, in order
    closeLog,         \* stop/close/terminate calls on the resources, in order
    sent,             \* calls that transmitted a frame, in order
    printed,          \* labels and text printed since the last newline
    \* ---- app.py
    app,              \* the page: script globals, DOM state, browser objects
    handlers,         \* the invocations of the async ws.onmessage
    playing,          \* the chunks whose source has started and not ended
    \* ---- audio_component.py
    compPc,           \* position of initAudio()
    compStatus,       \* class of the status element
    websocket,        \* the global websocket (0: undefined)
    wsState,          \* readyState of each WebSocket created
    timers,           \* pending reconnect timers
    player,           \* audioQueue, isPlaying, currentSource, nextPlayTime, sources
    currentTime,      \* audioContext.currentTime
    received,         \* ids of the chunks received, in order
    processed,        \* invocations of processor.onaudioprocess
    wsSent,           \* frames passed to websocket.send, in order
    dropped,          \* chunks that playAudio's catch has logged
    \* ---- the resamplers of audio_component.py, run on one frame
    sampleRate,       \* audioContext.sampleRate (0: no frame given)
    inputData,        \* the samples given to the resampler
    outputData,       \* the samples it returned
    path              \* "none" | "capture" | "playback": which one ran

mainVars == <<is_running, input_stream, output_stream, session, runPc, sendPc,
              recvPc, mainPc, sigint, first_part, parts, turn_complete, nresp,
              delivered, written, captured, errors, closeLog, sent,
              printed>>

appVars == <<app, handlers, playing>>

compVars == <<compPc, compStatus, websocket, wsState, timers, player,
              currentTime, received, processed, wsSent, dropped>>

resVars == <<sampleRate, inputData, outputData, path>>

vars == <<prog, mainVars, appVars, compVars, resVars>>

\* =================================================================== main.py

\* A part of a model_turn: audio is the id of its inline_data (0: none),
\* text tells whether it carries text.
PartKinds == {"audio", "text", "both"}

RECURSIVE MkParts(_, _)
MkParts(kinds, nextId) ==
    IF kinds = <<>> THEN <<>>
    ELSE LET k == Head(kinds)
             a == IF k \in {"audio", "both"} THEN nextId ELSE 0
         IN <<[audio |-> a, text |-> k \in {"text", "both"}]>>
            \o MkParts(Tail(kinds), IF a = 0 THEN nextId ELSE nextId + 1)

RECURSIVE AudioIds(_)
AudioIds(ps) ==
    IF ps = <<>> THEN <<>>
    ELSE (IF Head(ps).audio = 0 THEN <<>> ELSE <<Head(ps).audio>>)
         \o AudioIds(Tail(ps))

KindSeqs == UNION {[1..n -> PartKinds] : n \in 0..MaxParts}

\* GeminiLiveBot.__init__ and the state before run() starts.
InitMain ==
    /\ is_running = TRUE
    /\ input_stream = "None"
    /\ output_stream = "None"
    /\ session = "none"
    /\ runPc = "setup_in"
    /\ sendPc = "idle"
    /\ recvPc = "idle"
    /\ mainPc = "run"
    /\ sigint = FALSE
    /\ first_part = TRUE
    /\ parts = <<>>
    /\ turn_complete = FALSE
    /\ nresp = 0
    /\ delivered = <<>>
    /\ written = <<>>
    /\ captured = 0
    /\ errors = <<>>
    /\ closeLog = <<>>
    /\ sent = <<>>
    /\ printed = [labels |-> 0, text |-> FALSE]

\* setup_audio, first self.audio.open (the microphone).
OpenInput ==
    /\ prog = "main" /\ mainPc = "run" /\ runPc = "setup_in"
    /\ \E ok \in BOOLEAN :
         IF ok THEN /\ input_stream' = "open"
                    /\ runPc' = "setup_out"
                    /\ mainPc' = mainPc
               ELSE /\ input_stream' = input_stream
                    /\ runPc' = "raised"
                    /\ mainPc' = "crashed"
    /\ UNCHANGED <<appVars, compVars, resVars>>
    /\ UNCHANGED <<prog, is_running, output_stream, session, sendPc, recvPc,
                   sigint, first_part, parts, turn_complete, nresp, delivered,
                   written, captured, errors, closeLog, sent, printed>>

\* setup_audio, second self.audio.open (the speaker). setup_audio is called
\* before the try of run(): an exception here leaves run() without cleanup.
OpenOutput ==
    /\ prog = "main" /\ mainPc = "run" /\ runPc = "setup_out"
    /\ \E ok \in BOOLEAN :
         IF ok THEN /\ output_stream' = "open"
                    /\ runPc' = "connect"
                    /\ mainPc' = mainPc
               ELSE /\ output_stream' = output_stream
                    /\ runPc' = "raised"
                    /\ mainPc' = "crashed"
    /\ UNCHANGED <<appVars, compVars, resVars>>
    /\ UNCHANGED <<prog, is_running, input_stream, session, sendPc, recvPc,
                   sigint, first_part, parts, turn_complete, nresp, delivered,
                   written, captured, errors, closeLog, sent, printed>>

\* async with self.client.aio.live.connect(...) as session: entered; gather
\* starts both loops.
ConnectOk ==
    /\ prog = "main" /\ mainPc = "run" /\ runPc = "connect"
    /\ session' = "open"
    /\ runPc' = "gather"
    /\ sendPc' = "read"
    /\ recvPc' = "wait"
    /\ UNCHANGED <<appVars, compVars, resVars>>
    /\ UNCHANGED <<prog, is_running, input_stream, output_stream, mainPc,
                   sigint, first_part, parts, turn_complete, nresp, delivered,
                   written, captured, errors, closeLog, sent, printed>>

\* connect raises: except Exception prints "Connection Failed".
ConnectFail ==
    /\ prog = "main" /\ mainPc = "run" /\ runPc = "connect"
    /\ errors' = Append(errors, [msg |-> "Connection Failed",
                                 cause |-> "connect"])
    /\ runPc' = "finally"
    /\ UNCHANGED <<appVars, compVars, resVars>>
    /\ UNCHANGED <<prog, is_running, input_stream, output_stream, session,
                   sendPc, recvPc, mainPc, sigint, first_part, parts,
                   turn_complete, nresp, delivered, written, captured,
                   closeLog, sent, printed>>

\* ---- the two loops on one event loop

\* The calls that keep their thread until the device is done:
\* input_stream.read and output_stream.write.
BlockingCalls == {"read", "write"}

\* A loop that calls the device in the coroutine itself.
RunsInLoop(pc) == "loop"

\* Where the call a loop waits for at position pc runs: the two device calls
\* are given to loop.run_in_executor(None, ...), the session's calls are
\* awaited on the event loop.
RunsIn(pc) == IF pc \in BlockingCalls THEN "executor" ELSE "loop"

\* The loop at position pc keeps the event loop's thread to itself, so the
\* other coroutine of gather cannot be resumed.
HoldsLoop(pc) == pc \in BlockingCalls /\ RunsIn(pc) = "loop"

\* ---- send_audio_loop

\* The except clause of a loop: the message is printed, with the exception
\* (here: where it came from), only if is_running.
ReportError(msg, cause) ==
    IF is_running THEN Append(errors, [msg |-> msg, cause |-> cause])
    ELSE errors

\* while self.is_running: data = await run_in_executor(input_stream.read)
SendRead ==
    /\ prog = "main" /\ sendPc = "read" /\ is_running
    /\ ~HoldsLoop(recvPc)
    /\ captured < MaxFrames
    /\ captured' = captured + 1
    /\ sendPc' = "send"
    /\ UNCHANGED <<appVars, compVars, resVars>>
    /\ UNCHANGED <<prog, is_running, input_stream, output_stream, session,
                   runPc, recvPc, mainPc, sigint, first_part, parts,
                   turn_complete, nresp, delivered, written, errors, closeLog,
                   sent, printed>>

\* input_stream.read raises: outer except of the send loop.
SendReadRaise ==
    /\ prog = "main" /\ sendPc = "read" /\ is_running
    /\ ~HoldsLoop(recvPc)
    /\ errors' = ReportError("Send Error", "device")
    /\ sendPc' = "done"
    /\ UNCHANGED <<appVars, compVars, resVars>>
    /\ UNCHANGED <<prog, is_running, input_stream, output_stream, session,
                   runPc, recvPc, mainPc, sigint, first_part, parts,
                   turn_complete, nresp, delivered, written, captured,
                   closeLog, sent, printed>>

\* A log that puts the newest call first.
TransmitFirst(log, frame, via, raised) ==
    <<[frame |-> frame, via |-> via, raised |-> raised]>> \o log

\* One call that hands a frame to the session: the frame, the method called
\* and whether the call raised.
Transmit(log, frame, via, raised) ==
    Append(log, [frame |-> frame, via |-> via, raised |-> raised])

\* await session.send(...) returns, or raises and the inner except goes to
\* the fallback send_realtime_input (nothing is printed there).
SendSend ==
    /\ prog = "main" /\ sendPc = "send"
    /\ ~HoldsLoop(recvPc)
    /\ \E ok \in BOOLEAN :
         /\ sendPc' = IF ok THEN "read" ELSE "fallback"
         /\ sent' = Transmit(sent, captured, "send", ~ok)
    /\ UNCHANGED <<appVars, compVars, resVars>>
    /\ UNCHANGED <<prog, is_running, input_stream, output_stream, session,
                   runPc, recvPc, mainPc, sigint, first_part, parts,
                   turn_complete, nresp, delivered, written, captured, errors,
                   closeLog, printed>>

\* await session.send_realtime_input(...) returns: the same data went out
\* through the second method.
SendFallbackOk ==
    /\ prog = "main" /\ sendPc = "fallback"
    /\ ~HoldsLoop(recvPc)
    /\ sendPc' = "read"
    /\ sent' = Transmit(sent, captured, "send_realtime_input", FALSE)
    /\ UNCHANGED <<appVars, compVars, resVars>>
    /\ UNCHANGED <<prog, is_running, input_stream, output_stream, session,
                   runPc, recvPc, mainPc, sigint, first_part, parts,
                   turn_complete, nresp, delivered, written, captured, errors,
                   closeLog, printed>>

\* send_realtime_input raises too: outer except, the loop ends.
SendFallbackRaise ==
    /\ prog = "main" /\ sendPc = "fallback"
    /\ ~HoldsLoop(recvPc)
    /\ sent' = Transmit(sent, captured, "send_realtime_input", TRUE)
    /\ errors' = ReportError("Send Error", "channel")
    /\ sendPc' = "done"
    /\ UNCHANGED <<appVars, compVars, resVars>>
    /\ UNCHANGED <<prog, is_running, input_stream, output_stream, session,
                   runPc, recvPc, mainPc, sigint, first_part, parts,
                   turn_complete, nresp, delivered, written, captured,
                   closeLog, printed>>

\* ---- receive_audio_loop

\* The next response of session.receive(): server_content None (continue), or
\* a server_content with a model_turn and a turn_complete flag.
RecvResponse ==
    /\ prog = "main" /\ recvPc = "wait" /\ is_running
    /\ ~HoldsLoop(sendPc)
    /\ nresp < MaxResponses
    /\ nresp' = nresp + 1
    /\ \/ UNCHANGED <<recvPc, parts, turn_complete, delivered>>
       \/ \E ks \in KindSeqs, tc \in BOOLEAN :
            LET ps == MkParts(ks, Len(delivered) + 1) IN
            /\ parts' = ps
            /\ delivered' = delivered \o AudioIds(ps)
            /\ turn_complete' = tc
            /\ recvPc' = "parts"
    /\ UNCHANGED <<appVars, compVars, resVars>>
    /\ UNCHANGED <<prog, is_running, input_stream, output_stream, session,
                   runPc, sendPc, mainPc, sigint, first_part, written,
                   captured, errors, closeLog, sent, printed>>

\* session.receive() raises: except of the receive loop.
RecvRaise ==
    /\ prog = "main" /\ recvPc = "wait" /\ is_running
    /\ ~HoldsLoop(sendPc)
    /\ errors' = ReportError("Receive Error", "channel")
    /\ recvPc' = "done"
    /\ UNCHANGED <<appVars, compVars, resVars>>
    /\ UNCHANGED <<prog, is_running, input_stream, output_stream, session,
                   runPc, sendPc, mainPc, sigint, first_part, parts,
                   turn_complete, nresp, delivered, written, captured,
                   closeLog, sent, printed>>

\* A receive loop that prints the label and leaves the flag as it is.
AfterTextKeep(p, fp) == fp

\* if part.text: the label is printed for the first text of a turn.
AfterText(p, fp) == IF p.text THEN FALSE ELSE fp

\* What the two prints of `if part.text:` add to the line: the label if
\* first_part is set, then the text.
LineAfterText(p, fp, pr) ==
    IF p.text
    THEN [labels |-> pr.labels + (IF fp THEN 1 ELSE 0), text |-> TRUE]
    ELSE pr

\* for part in model_turn.parts: a part with inline_data starts
\* output_stream.write in the executor; one without goes on to its text.
RecvPart ==
    /\ prog = "main" /\ recvPc = "parts" /\ parts # <<>>
    /\ ~HoldsLoop(sendPc)
    /\ LET p == Head(parts) IN
       IF p.audio # 0
       THEN /\ written' = Append(written, p.audio)
            /\ recvPc' = "write"
            /\ UNCHANGED <<parts, first_part, printed>>
       ELSE /\ first_part' = AfterText(p, first_part)
            /\ printed' = LineAfterText(p, first_part, printed)
            /\ parts' = Tail(parts)
            /\ UNCHANGED <<written, recvPc>>
    /\ UNCHANGED <<appVars, compVars, resVars>>
    /\ UNCHANGED <<prog, is_running, input_stream, output_stream, session,
                   runPc, sendPc, mainPc, sigint, turn_complete, nresp,
                   delivered, captured, errors, closeLog, sent>>

\* output_stream.write returned: the text of the same part, then the next part.
RecvWriteReturn ==
    /\ prog = "main" /\ recvPc = "write"
    /\ ~HoldsLoop(sendPc)
    /\ first_part' = AfterText(Head(parts), first_part)
    /\ printed' = LineAfterText(Head(parts), first_part, printed)
    /\ parts' = Tail(parts)
    /\ recvPc' = "parts"
    /\ UNCHANGED <<appVars, compVars, resVars>>
    /\ UNCHANGED <<prog, is_running, input_stream, output_stream, session,
                   runPc, sendPc, mainPc, sigint, turn_complete, nresp,
                   delivered, written, captured, errors, closeLog, sent>>

\* output_stream.write raises: except of the receive loop.
RecvWriteRaise ==
    /\ prog = "main" /\ recvPc = "write"
    /\ ~HoldsLoop(sendPc)
    /\ errors' = ReportError("Receive Error", "device")
    /\ recvPc' = "done"
    /\ UNCHANGED <<appVars, compVars, resVars>>
    /\ UNCHANGED <<prog, is_running, input_stream, output_stream, session,
                   runPc, sendPc, mainPc, sigint, first_part, parts,
                   turn_complete, nresp, delivered, written, captured,
                   closeLog, sent, printed>>

\* After the parts: if server_content.turn_complete: first_part = True.
RecvTurnEnd ==
    /\ prog = "main" /\ recvPc = "parts" /\ parts = <<>>
    /\ ~HoldsLoop(sendPc)
    /\ first_part' = IF turn_complete THEN TRUE ELSE first_part
    /\ printed' = IF turn_complete THEN [labels |-> 0, text |-> FALSE]
                  ELSE printed
    /\ turn_complete' = FALSE
    /\ recvPc' = "wait"
    /\ UNCHANGED <<appVars, compVars, resVars>>
    /\ UNCHANGED <<prog, is_running, input_stream, output_stream, session,
                   runPc, sendPc, mainPc, sigint, parts, nresp, delivered,
                   written, captured, errors, closeLog, sent>>

\* ---- run(): leaving gather, the async with block and the finally

Active(pc) == pc \notin {"idle", "done", "cancelled"}

\* asyncio.gather returns once both loops have returned.
GatherReturn ==
    /\ prog = "main" /\ runPc = "gather"
    /\ sendPc = "done" /\ recvPc = "done"
    /\ runPc' = "exit_session"
    /\ UNCHANGED <<appVars, compVars, resVars>>
    /\ UNCHANGED <<prog, is_running, input_stream, output_stream, session,
                   sendPc, recvPc, mainPc, sigint, first_part, parts,
                   turn_complete, nresp, delivered, written, captured, errors,
                   closeLog, sent, printed>>

\* Ctrl-C while run() waits in connect or gather: asyncio.run cancels the
\* main task, CancelledError passes the loops' except Exception clauses.
KeyboardInterrupt ==
    /\ prog = "main" /\ mainPc = "run" /\ ~sigint
    /\ runPc \in {"connect", "gather"}
    /\ sigint' = TRUE
    /\ sendPc' = IF Active(sendPc) THEN "cancelled" ELSE sendPc
    /\ recvPc' = IF Active(recvPc) THEN "cancelled" ELSE recvPc
    /\ runPc' = IF session = "open" THEN "exit_session" ELSE "finally"
    /\ UNCHANGED <<appVars, compVars, resVars>>
    /\ UNCHANGED <<prog, is_running, input_stream, output_stream, session,
                   mainPc, first_part, parts, turn_complete, nresp, delivered,
                   written, captured, errors, closeLog, sent, printed>>

\* __aexit__ of the async with: the live session is closed.
SessionExit ==
    /\ prog = "main" /\ runPc = "exit_session"
    /\ session' = "closed"
    /\ closeLog' = Append(closeLog, "session")
    /\ runPc' = "finally"
    /\ UNCHANGED <<appVars, compVars, resVars>>
    /\ UNCHANGED <<prog, is_running, input_stream, output_stream, sendPc,
                   recvPc, mainPc, sigint, first_part, parts, turn_complete,
                   nresp, delivered, written, captured, errors, sent, printed>>

\* cleanup(): the calls it makes on the streams and on PyAudio, given the
\* state of the two attributes. A stream attribute is never reset to None, so
\* a second cleanup() calls stop_stream()/close() on a closed stream; whether
\* the library raises there is its choice (libRaises).
cleanup(inS, outS, libRaises) ==
    LET abortIn == inS = "closed" /\ libRaises
        c1 == IF inS # "None" THEN <<"input_stream">> ELSE <<>>
        doOut == ~abortIn /\ outS # "None"
        abortOut == doOut /\ outS = "closed" /\ libRaises
        c2 == IF doOut THEN <<"output_stream">> ELSE <<>>
        c3 == IF ~abortIn /\ ~abortOut THEN <<"audio">> ELSE <<>>
    IN [input_stream |-> IF inS = "open" THEN "closed" ELSE inS,
        output_stream |-> IF doOut /\ outS = "open" THEN "closed" ELSE outS,
        calls |-> c1 \o c2 \o c3,
        raised |-> abortIn \/ abortOut]

\* finally: self.cleanup(), then run() returns or the cancellation goes on
\* to asyncio.run, which raises KeyboardInterrupt in __main__.
RunFinally ==
    /\ prog = "main" /\ runPc = "finally"
    /\ \E libRaises \in BOOLEAN :
         LET c == cleanup(input_stream, output_stream, libRaises) IN
         /\ is_running' = FALSE
         /\ input_stream' = c.input_stream
         /\ output_stream' = c.output_stream
         /\ closeLog' = closeLog \o c.calls
         /\ runPc' = IF c.raised THEN "raised"
                     ELSE IF sigint THEN "cancelled" ELSE "returned"
         /\ mainPc' = IF sigint THEN "except"
                      ELSE IF c.raised THEN "crashed" ELSE "exit"
    /\ UNCHANGED <<appVars, compVars, resVars>>
    /\ UNCHANGED <<prog, session, sendPc, recvPc, sigint, first_part, parts,
                   turn_complete, nresp, delivered, written, captured, errors,
                   sent, printed>>

\* except KeyboardInterrupt: bot.cleanup()
MainExcept ==
    /\ prog = "main" /\ mainPc = "except"
    /\ \E libRaises \in BOOLEAN :
         LET c == cleanup(input_stream, output_stream, libRaises) IN
         /\ is_running' = FALSE
         /\ input_stream' = c.input_stream
         /\ output_stream' = c.output_stream
         /\ closeLog' = closeLog \o c.calls
         /\ mainPc' = IF c.raised THEN "crashed" ELSE "exit"
    /\ UNCHANGED <<appVars, compVars, resVars>>
    /\ UNCHANGED <<prog, session, runPc, sendPc, recvPc, sigint, first_part,
                   parts, turn_complete, nresp, delivered, written, captured,
                   errors, sent, printed>>

NextMain ==
    \/ OpenInput \/ OpenOutput \/ ConnectOk \/ ConnectFail
    \/ SendRead \/ SendReadRaise \/ SendSend \/ SendFallbackOk
    \/ SendFallbackRaise
    \/ RecvResponse \/ RecvRaise \/ RecvPart \/ RecvWriteReturn
    \/ RecvWriteRaise \/ RecvTurnEnd
    \/ GatherReturn \/ KeyboardInterrupt \/ SessionExit \/ RunFinally
    \/ MainExcept

\* ==================================================================== app.py

Sockets == 1..MaxSockets
Msgs == 1..MaxMsgs

\* The page after load: the script's globals (ws, audioContext, mediaStream,
\* processor, isRunning; 0 is null), the status class and the buttons, and
\* the browser objects they refer to: readyState of each WebSocket, the media
\* streams, audio contexts and script processors that are still live, the
\* position of each socket's async onopen handler, the calls made on the
\* resources (log), the invocations of ws.onerror and of onaudioprocess and the
\* frames the latter sent.
InitApp ==
    /\ app = [ws |-> 0, audioContext |-> 0, mediaStream |-> 0, processor |-> 0,
              isRunning |-> FALSE, status |-> "idle",
              startDisabled |-> FALSE, stopDisabled |-> TRUE,
              readyState |-> [s \in Sockets |-> "NEW"],
              onopenPc |-> [s \in Sockets |-> "none"],
              liveMics |-> {}, liveCtx |-> {}, liveProc |-> {},
              log |-> <<>>, stopped |-> FALSE, onerrors |-> 0,
              callbacks |-> 0,
              frames |-> 0, sentAfterStop |-> FALSE]
    /\ handlers = [m \in Msgs |-> [pc |-> "none", parts |-> <<>>, i |-> 0]]
    /\ playing = {}

\* ws.close(): a socket that is connecting or open starts closing.
CloseSocket(rs, s) ==
    IF s # 0 /\ rs[s] \in {"CONNECTING", "OPEN"}
    THEN [rs EXCEPT ![s] = "CLOSING"] ELSE rs

\* stopConversation(), applied to the page state a.
stopConversation(a) ==
    [a EXCEPT
       !.isRunning = FALSE,
       !.liveProc = a.liveProc \ {a.processor},
       !.processor = 0,
       !.liveMics = a.liveMics \ {a.mediaStream},
       !.mediaStream = 0,
       !.liveCtx = a.liveCtx \ {a.audioContext},
       !.audioContext = 0,
       !.readyState = CloseSocket(a.readyState, a.ws),
       !.ws = 0,
       !.log = a.log
               \o (IF a.mediaStream # 0 THEN <<<<"mediaStream", a.mediaStream>>>> ELSE <<>>)
               \o (IF a.ws # 0 THEN <<<<"ws", a.ws>>>> ELSE <<>>),
       !.startDisabled = FALSE,
       !.stopDisabled = TRUE,
       !.status = "idle",
       !.stopped = TRUE]

\* startBtn.onclick = startConversation: a new WebSocket is created and the
\* four handlers are attached to it.
ClickStart ==
    /\ prog = "app" /\ ~app.startDisabled
    /\ \E s \in Sockets :
         /\ app.readyState[s] = "NEW"
         /\ \A t \in Sockets : t < s => app.readyState[t] # "NEW"
         /\ app' = [app EXCEPT !.status = "connecting",
                               !.startDisabled = TRUE,
                               !.ws = s,
                               !.readyState[s] = "CONNECTING",
                               !.stopped = FALSE]
    /\ UNCHANGED <<handlers, playing>>
    /\ UNCHANGED <<prog, mainVars, compVars, resVars>>

\* ws.onopen up to its await: ws.send(setupMessage) uses the global ws (it
\* throws when ws is null or still connecting), then setupAudio() waits for
\* getUserMedia.
SockOpen(s) ==
    /\ prog = "app" /\ app.readyState[s] = "CONNECTING"
    /\ LET sendThrows == IF app.ws = 0 THEN TRUE
                         ELSE app.ws # s /\ app.readyState[app.ws] = "CONNECTING"
       IN app' = [app EXCEPT !.readyState[s] = "OPEN",
                             !.onopenPc[s] = IF sendThrows THEN "threw"
                                             ELSE "awaitMic"]
    /\ UNCHANGED <<handlers, playing>>
    /\ UNCHANGED <<prog, mainVars, compVars, resVars>>

\* The page state after setupAudio() has resumed with the granted stream and
\* ws.onopen has run to its end (lines 241-257, 279-280 and 191-193).
AfterSetupAudio(a, s) ==
    [a EXCEPT !.mediaStream = s, !.liveMics = a.liveMics \cup {s},
              !.audioContext = s, !.liveCtx = a.liveCtx \cup {s},
              !.processor = s, !.liveProc = a.liveProc \cup {s},
              !.status = "listening",
              !.stopDisabled = FALSE,
              !.isRunning = TRUE,
              !.onopenPc[s] = "done"]

\* getUserMedia resolves: the rest of setupAudio and of ws.onopen run.
MicGranted(s) ==
    /\ prog = "app" /\ app.onopenPc[s] = "awaitMic"
    /\ app' = AfterSetupAudio(app, s)
    /\ UNCHANGED <<handlers, playing>>
    /\ UNCHANGED <<prog, mainVars, compVars, resVars>>

\* The page state after getUserMedia has rejected: setupAudio() rejects inside
\* the async ws.onopen, whose promise nobody handles; the try/catch of
\* startConversation has long returned.
AfterMicDenied(a, s) == [a EXCEPT !.onopenPc[s] = "micDenied"]

MicDenied(s) ==
    /\ prog = "app" /\ app.onopenPc[s] = "awaitMic"
    /\ app' = AfterMicDenied(app, s)
    /\ UNCHANGED <<handlers, playing>>
    /\ UNCHANGED <<prog, mainVars, compVars, resVars>>

\* The connection of socket s fails: the browser fires error, then close.
\* ws.onerror sets the status and calls stopConversation(); ws.onclose calls
\* it again.
SockFail(s) ==
    /\ prog = "app" /\ app.readyState[s] \in {"CONNECTING", "OPEN", "CLOSING"}
    /\ LET a0 == [app EXCEPT !.readyState[s] = "CLOSED", !.status = "error",
                             !.onerrors = @ + 1]
       IN app' = stopConversation(stopConversation(a0))
    /\ UNCHANGED <<handlers, playing>>
    /\ UNCHANGED <<prog, mainVars, compVars, resVars>>

\* Socket s closes without an error (the server closed it, or the closing
\* handshake started by ws.close() ended): ws.onclose.
SockClose(s) ==
    /\ prog = "app" /\ app.readyState[s] \in {"OPEN", "CLOSING"}
    /\ app' = stopConversation([app EXCEPT !.readyState[s] = "CLOSED"])
    /\ UNCHANGED <<handlers, playing>>
    /\ UNCHANGED <<prog, mainVars, compVars, resVars>>

\* stopBtn.onclick = stopConversation
ClickStop ==
    /\ prog = "app" /\ ~app.stopDisabled
    /\ app' = stopConversation(app)
    /\ UNCHANGED <<handlers, playing>>
    /\ UNCHANGED <<prog, mainVars, compVars, resVars>>

\* A guard that looks at isRunning alone.
CanSendRunningOnly(a) == a.isRunning

\* The guard of processor.onaudioprocess (line 260).
CanSend(a) == a.isRunning /\ a.ws # 0 /\ a.readyState[a.ws] = "OPEN"

\* processor.onaudioprocess of a live processor p: it returns at once unless
\* the guard holds, and sends one frame through the global ws if it does.
AudioProcess(p) ==
    /\ prog = "app" /\ p \in app.liveProc
    /\ app.callbacks < MaxAppFrames
    /\ app' = IF CanSend(app)
              THEN [app EXCEPT !.callbacks = @ + 1,
                               !.frames = @ + 1,
                               !.sentAfterStop = @ \/ app.stopped]
              ELSE [app EXCEPT !.callbacks = @ + 1]
    /\ UNCHANGED <<handlers, playing>>
    /\ UNCHANGED <<prog, mainVars, compVars, resVars>>

\* ---- ws.onmessage and playAudio

RECURSIVE NextAudio(_, _)
NextAudio(ps, i) ==
    IF i > Len(ps) THEN i
    ELSE IF ps[i] = "audio" THEN i ELSE NextAudio(ps, i + 1)

\* The handler runs from part i to its next await playAudio, or to its end.
Resume(h, i) ==
    LET j == NextAudio(h.parts, i)
    IN [h EXCEPT !.i = j, !.pc = IF j > Len(h.parts) THEN "done" ELSE "decode"]

StatusAfter(h, st) ==
    IF h.pc = "decode" THEN "speaking" ELSE st

AppPartSeqs == UNION {[1..n -> {"text", "audio"}] : n \in 1..MaxParts}

\* A message arrives on an open socket: a new invocation of the async
\* ws.onmessage, whatever the earlier invocations are waiting for.
SockMessage(s) ==
    /\ prog = "app" /\ app.readyState[s] = "OPEN"
    /\ \E m \in Msgs, ps \in AppPartSeqs :
         /\ handlers[m].pc = "none"
         /\ \A k \in Msgs : k < m => handlers[k].pc # "none"
         /\ LET h == Resume([pc |-> "run", parts |-> ps, i |-> 1], 1) IN
            /\ handlers' = [handlers EXCEPT ![m] = h]
            /\ app' = [app EXCEPT !.status = StatusAfter(h, app.status)]
    /\ UNCHANGED playing
    /\ UNCHANGED <<prog, mainVars, compVars, resVars>>

\* decodeAudioData resolves: source.start(0) on a fresh AudioContext.
DecodeOk(m) ==
    /\ prog = "app" /\ handlers[m].pc = "decode"
    /\ handlers' = [handlers EXCEPT ![m].pc = "playing"]
    /\ playing' = playing \cup {<<m, handlers[m].i>>}
    /\ UNCHANGED app
    /\ UNCHANGED <<prog, mainVars, compVars, resVars>>

\* decodeAudioData rejects: playAudio catches and returns, the handler sets
\* the status and goes on with the next part.
DecodeFail(m) ==
    /\ prog = "app" /\ handlers[m].pc = "decode"
    /\ LET h == Resume(handlers[m], handlers[m].i + 1) IN
       /\ handlers' = [handlers EXCEPT ![m] = h]
       /\ app' = [app EXCEPT !.status = StatusAfter(h, "listening")]
    /\ UNCHANGED playing
    /\ UNCHANGED <<prog, mainVars, compVars, resVars>>

\* source.onended: playContext.close(), the promise resolves and the handler
\* goes on.
PlayEnded(m) ==
    /\ prog = "app" /\ handlers[m].pc = "playing"
    /\ playing' = playing \ {<<m, handlers[m].i>>}
    /\ LET h == Resume(handlers[m], handlers[m].i + 1) IN
       /\ handlers' = [handlers EXCEPT ![m] = h]
       /\ app' = [app EXCEPT !.status = StatusAfter(h, "listening")]
    /\ UNCHANGED <<prog, mainVars, compVars, resVars>>

NextApp ==
    \/ ClickStart \/ ClickStop
    \/ \E s \in Sockets : SockOpen(s)
    \/ \E s \in Sockets : MicGranted(s)
    \/ \E s \in Sockets : MicDenied(s)
    \/ \E s \in Sockets : SockFail(s)
    \/ \E s \in Sockets : SockClose(s)
    \/ \E p \in Sockets : AudioProcess(p)
    \/ \E s \in Sockets : SockMessage(s)
    \/ \E m \in Msgs : DecodeOk(m)
    \/ \E m \in Msgs : DecodeFail(m)
    \/ \E m \in Msgs : PlayEnded(m)

\* ========================================================= audio_component.py

CompSockets == 1..MaxCompSockets

\* The component's script before initAudio() has got its answer from
\* getUserMedia: no WebSocket yet, an empty queue, nothing playing.
InitComp ==
    /\ compPc = "getUserMedia"
    /\ compStatus = "status-connecting"
    /\ websocket = 0
    /\ wsState = [s \in CompSockets |-> "NEW"]
    /\ timers = 0
    /\ player = [audioQueue |-> <<>>, isPlaying |-> FALSE, currentSource |-> 0,
                 nextPlayTime |-> 0, sources |-> <<>>]
    /\ currentTime = 0
    /\ received = <<>>
    /\ processed = 0
    /\ wsSent = <<>>
    /\ dropped = 0

\* The socket connectWebSocket() would create next, if the bound leaves one.
FreshSocket(s) ==
    /\ wsState[s] = "NEW"
    /\ \A t \in CompSockets : t < s => wsState[t] # "NEW"

\* initAudio(): getUserMedia resolves, the processor is set up and
\* connectWebSocket() creates the first socket.
InitAudioGranted ==
    /\ prog = "comp" /\ compPc = "getUserMedia"
    /\ compPc' = "ready"
    /\ compStatus' = "status-connecting"
    /\ \E s \in CompSockets :
         /\ FreshSocket(s)
         /\ websocket' = s
         /\ wsState' = [wsState EXCEPT ![s] = "CONNECTING"]
    /\ UNCHANGED <<timers, player, currentTime, received>>
    /\ UNCHANGED <<processed, wsSent, dropped>>
    /\ UNCHANGED <<prog, mainVars, appVars, resVars>>

\* initAudio(): getUserMedia rejects, the catch sets the error status.
InitAudioDenied ==
    /\ prog = "comp" /\ compPc = "getUserMedia"
    /\ compPc' = "failed"
    /\ compStatus' = "status-error"
    /\ UNCHANGED <<websocket, wsState, timers, player, currentTime, received>>
    /\ UNCHANGED <<processed, wsSent, dropped>>
    /\ UNCHANGED <<prog, mainVars, appVars, resVars>>

\* websocket.onopen
CompWsOpen(s) ==
    /\ prog = "comp" /\ wsState[s] = "CONNECTING"
    /\ wsState' = [wsState EXCEPT ![s] = "OPEN"]
    /\ compStatus' = "status-connected"
    /\ UNCHANGED <<compPc, websocket, timers, player, currentTime, received>>
    /\ UNCHANGED <<processed, wsSent, dropped>>
    /\ UNCHANGED <<prog, mainVars, appVars, resVars>>

\* Handlers that arm a reconnect timer in onerror as well as in onclose.
TimersAfterErrorAndClose(t) == t + 2

\* websocket.onclose: setTimeout(connectWebSocket, 3000); onerror arms none.
TimersAfterClose(t) == t + 1

\* The socket closes (after an error event or not): websocket.onerror and
\* websocket.onclose both set status-error, and onclose arms the 3 s timer.
CompWsClose(s) ==
    /\ prog = "comp" /\ wsState[s] \in {"CONNECTING", "OPEN"}
    /\ wsState' = [wsState EXCEPT ![s] = "CLOSED"]
    /\ compStatus' = "status-error"
    /\ timers' = TimersAfterClose(timers)
    /\ UNCHANGED <<compPc, websocket, player, currentTime, received>>
    /\ UNCHANGED <<processed, wsSent, dropped>>
    /\ UNCHANGED <<prog, mainVars, appVars, resVars>>

\* setTimeout(connectWebSocket, 3000) fires.
ReconnectTimer ==
    /\ prog = "comp" /\ timers > 0
    /\ timers' = timers - 1
    /\ \E s \in CompSockets :
         /\ FreshSocket(s)
         /\ websocket' = s
         /\ wsState' = [wsState EXCEPT ![s] = "CONNECTING"]
    /\ UNCHANGED <<compPc, compStatus, player, currentTime, received>>
    /\ UNCHANGED <<processed, wsSent, dropped>>
    /\ UNCHANGED <<prog, mainVars, appVars, resVars>>

\* processor.onaudioprocess (set up by initAudio once getUserMedia has
\* resolved): the frame goes to websocket.send only if the global websocket
\* exists and is OPEN; there is no else branch.
CompAudioProcess ==
    /\ prog = "comp" /\ compPc = "ready"
    /\ processed < MaxCompFrames
    /\ processed' = processed + 1
    /\ wsSent' = IF websocket # 0 /\ wsState[websocket] = "OPEN"
                 THEN Append(wsSent, processed + 1) ELSE wsSent
    /\ UNCHANGED <<compPc, compStatus, websocket, wsState, timers, player,
                   currentTime, received, dropped>>
    /\ UNCHANGED <<prog, mainVars, appVars, resVars>>

\* ---- the playback queue

\* A scheduler that never moves nextPlayTime up to the device clock.
ScheduleTimeNoClamp(npt, now) == npt

\* The start time playNextInQueue passes to source.start (lines 233-236).
ScheduleTime(npt, now) == IF npt < now THEN now ELSE npt

\* A queue that hands out its newest buffer first.
ShiftLast(q) == [buffer |-> q[Len(q)], rest |-> SubSeq(q, 1, Len(q) - 1)]

\* The buffer playNextInQueue takes from the queue, and what it leaves.
Shift(q) == [buffer |-> Head(q), rest |-> Tail(q)]

\* currentSource.stop() in playNextInQueue: a source that is still playing
\* (or has not started) is cut; one that has played to its end is unchanged.
StopSource(srcs, c, now) ==
    IF c # 0 /\ srcs[c].st = "live" /\ now < srcs[c].start + srcs[c].dur
    THEN [srcs EXCEPT ![c].st = "cut"] ELSE srcs

\* playNextInQueue(), applied to the player state p at device time now. A
\* source records when it was scheduled (at) and which source currentSource
\* was when the stop call was reached (prev, 0: null).
playNextInQueue(p, now) ==
    IF p.audioQueue = <<>>
    THEN [p EXCEPT !.isPlaying = FALSE, !.currentSource = 0]
    ELSE LET sh == Shift(p.audioQueue)
             t == ScheduleTime(p.nextPlayTime, now)
             srcs == StopSource(p.sources, p.currentSource, now)
         IN [p EXCEPT
               !.isPlaying = TRUE,
               !.audioQueue = sh.rest,
               !.sources = Append(srcs, [id |-> sh.buffer.id,
                                         start |-> t, dur |-> sh.buffer.dur,
                                         at |-> now, st |-> "live",
                                         prev |-> p.currentSource]),
               !.currentSource = Len(srcs) + 1,
               !.nextPlayTime = t + sh.buffer.dur]

\* audioQueue.push(audioBuffer)
Push(q, b) == Append(q, b)

\* A playAudio that queues the buffer and never starts playback itself.
playAudioQueueOnly(p, b, now) == [p EXCEPT !.audioQueue = Push(p.audioQueue, b)]

\* A playAudio that calls playNextInQueue whether or not something plays.
playAudioAlways(p, b, now) ==
    playNextInQueue([p EXCEPT !.audioQueue = Push(p.audioQueue, b)], now)

\* playAudio(audioData) for a well-formed chunk: the buffer is queued, and
\* playback starts if nothing is playing.
playAudio(p, b, now) ==
    LET q == [p EXCEPT !.audioQueue = Push(p.audioQueue, b)]
    IN IF ~q.isPlaying THEN playNextInQueue(q, now) ELSE q

\* websocket.onmessage on an open socket: playAudio(event.data).
CompMessage(s) ==
    /\ prog = "comp" /\ wsState[s] = "OPEN"
    /\ Len(received) < MaxChunks
    /\ \E d \in 1..MaxDur :
         LET id == Len(received) + 1 IN
         /\ received' = Append(received, id)
         /\ player' = playAudio(player, [id |-> id, dur |-> d], currentTime)
    /\ UNCHANGED <<compPc, compStatus, websocket, wsState, timers, currentTime>>
    /\ UNCHANGED <<processed, wsSent, dropped>>
    /\ UNCHANGED <<prog, mainVars, appVars, resVars>>

\* websocket.onmessage with a chunk playAudio cannot turn into a buffer (an
\* odd number of bytes: new Int16Array throws; no sample: createBuffer
\* throws): the exception is raised before audioQueue.push and the catch of
\* playAudio logs it.
CompMalformed(s) ==
    /\ prog = "comp" /\ wsState[s] = "OPEN"
    /\ dropped < MaxMalformed
    /\ dropped' = dropped + 1
    /\ UNCHANGED <<compPc, compStatus, websocket, wsState, timers, player,
                   currentTime, received, processed, wsSent>>
    /\ UNCHANGED <<prog, mainVars, appVars, resVars>>

\* audioContext.currentTime advances.
Tick ==
    /\ prog = "comp" /\ compPc = "ready"
    /\ currentTime < MaxTime
    /\ currentTime' = currentTime + 1
    /\ UNCHANGED <<compPc, compStatus, websocket, wsState, timers, player,
                   received>>
    /\ UNCHANGED <<processed, wsSent, dropped>>
    /\ UNCHANGED <<prog, mainVars, appVars, resVars>>

\* source.onended of source i: it has played to its end, or was stopped.
OnEnded(i) ==
    /\ prog = "comp" /\ i \in 1..Len(player.sources)
    /\ LET src == player.sources[i] IN
       \/ src.st = "live" /\ src.start + src.dur <= currentTime
       \/ src.st = "cut"
    /\ player' = playNextInQueue(
                    [player EXCEPT !.sources[i].st = "ended"], currentTime)
    /\ UNCHANGED <<compPc, compStatus, websocket, wsState, timers,
                   currentTime, received>>
    /\ UNCHANGED <<processed, wsSent, dropped>>
    /\ UNCHANGED <<prog, mainVars, appVars, resVars>>

\* The playback side of the component together with its connection.
NextComp ==
    \/ InitAudioGranted \/ InitAudioDenied \/ ReconnectTimer \/ Tick
    \/ \E s \in CompSockets : CompWsOpen(s)
    \/ \E s \in CompSockets : CompWsClose(s)
    \/ \E s \in CompSockets : CompMessage(s)
    \/ \E i \in 1..MaxChunks : OnEnded(i)

\* ======================================= the resamplers of audio_component.py

targetSampleRate == 16000
geminiSampleRate == 24000

\* The rates an AudioContext may run at.
Rates == {8000, 16000, 24000, 44100, 48000, 96000}

\* A frame of n samples; each sample is named by its position in the frame.
Frame(n) == [k \in 1..n |-> k]

\* No resampler has run.
IdleResample ==
    /\ sampleRate = 0 /\ inputData = <<>> /\ outputData = <<>>
    /\ path = "none"

\* A frame and a context rate are given, nothing has been computed.
InitResample ==
    /\ sampleRate \in Rates
    /\ inputData \in {Frame(n) : n \in 0..MaxLen}
    /\ outputData = <<>>
    /\ path = "none"

\* data[srcIndex] of a Float32Array (0-based); past the end it is undefined.
At(data, srcIndex) ==
    IF srcIndex < Len(data) THEN data[srcIndex + 1] ELSE "undefined"

\* onaudioprocess, lines 98-114. ratio = inputSampleRate / 16000; only if
\* ratio > 1: outputLength = floor(length / ratio) and
\* srcIndex = floor(i * ratio); otherwise the input is passed on as it is.
Downsample(data, inputSampleRate) ==
    IF inputSampleRate > targetSampleRate
    THEN LET outputLength ==
                 (Len(data) * targetSampleRate) \div inputSampleRate
         IN [k \in 1..outputLength |->
                At(data, ((k - 1) * inputSampleRate) \div targetSampleRate)]
    ELSE data

\* A resampler without the equal-rates branch that leaves the last input
\* sample out of the length.
ResampleShort(data, contextRate) ==
    LET outputLength ==
            ((Len(data) - 1) * contextRate) \div geminiSampleRate
    IN [k \in 1..outputLength |->
           At(data, ((k - 1) * geminiSampleRate) \div contextRate)]

\* playAudio, lines 257-277. ratio = targetSampleRate / 24000; if the rates
\* differ: outputLength = floor(length * ratio), srcIndex = floor(i / ratio)
\* and a sample is copied only if srcIndex < length (the array is zero
\* otherwise); if they are equal the input is passed on.
Resample(data, contextRate) ==
    IF geminiSampleRate # contextRate
    THEN LET outputLength == (Len(data) * contextRate) \div geminiSampleRate
         IN [k \in 1..outputLength |->
                LET srcIndex == ((k - 1) * geminiSampleRate) \div contextRate
                IN IF srcIndex < Len(data) THEN At(data, srcIndex) ELSE 0]
    ELSE data

\* The capture path runs on the frame.
CaptureResample ==
    /\ prog = "resample" /\ path = "none"
    /\ outputData' = Downsample(inputData, sampleRate)
    /\ path' = "capture"
    /\ UNCHANGED <<sampleRate, inputData>>
    /\ UNCHANGED <<prog, mainVars, appVars, compVars>>

\* The playback path runs on the frame.
PlaybackResample ==
    /\ prog = "resample" /\ path = "none"
    /\ outputData' = Resample(inputData, sampleRate)
    /\ path' = "playback"
    /\ UNCHANGED <<sampleRate, inputData>>
    /\ UNCHANGED <<prog, mainVars, appVars, compVars>>

NextResample == CaptureResample \/ PlaybackResample

\* ============================================================ specifications

Programs == {"main", "app", "comp"}

Init ==
    /\ prog \in Programs
    /\ InitMain /\ InitApp /\ InitComp /\ IdleResample

\* The component with its capture callback and with malformed chunks.
NextCompAll ==
    \/ NextComp
    \/ CompAudioProcess
    \/ \E s \in CompSockets : CompMalformed(s)

Next == NextMain \/ NextApp \/ NextCompAll

Spec == Init /\ [][Next]_vars

InitOnlyMain ==
    /\ prog = "main"
    /\ InitMain /\ InitApp /\ InitComp /\ IdleResample

SpecMain == InitOnlyMain /\ [][NextMain]_vars

InitOnlyApp ==
    /\ prog = "app"
    /\ InitMain /\ InitApp /\ InitComp /\ IdleResample

SpecApp == InitOnlyApp /\ [][NextApp]_vars

InitOnlyComp ==
    /\ prog = "comp"
    /\ InitMain /\ InitApp /\ InitComp /\ IdleResample

SpecComp == InitOnlyComp /\ [][NextComp]_vars

\* The two programs with a playback sink that takes raw PCM chunks.
InitSinks ==
    /\ prog \in {"main", "comp"}
    /\ InitMain /\ InitApp /\ InitComp /\ IdleResample

NextSinks == NextMain \/ NextComp

SpecSinks == InitSinks /\ [][NextSinks]_vars

\* The capture side of the component: the microphone callback and the
\* connection it sends on.
NextCompCapture ==
    \/ InitAudioGranted \/ InitAudioDenied \/ ReconnectTimer
    \/ \E s \in CompSockets : CompWsOpen(s)
    \/ \E s \in CompSockets : CompWsClose(s)
    \/ CompAudioProcess

\* The player of the component on a connection that stays up: chunks
\* arrive, the clock advances, sources end.
NextPlayer ==
    \/ InitAudioGranted \/ Tick
    \/ \E s \in CompSockets : CompWsOpen(s)
    \/ \E s \in CompSockets : CompMessage(s)
    \/ \E i \in 1..MaxChunks : OnEnded(i)

\* The clock keeps advancing (up to the last tick of the model) and a source
\* fires onended once it has played to its end or was stopped.
FairPlayer ==
    /\ WF_vars(Tick)
    /\ \A i \in 1..MaxChunks : WF_vars(OnEnded(i))

SpecPlayerFair == InitOnlyComp /\ [][NextPlayer]_vars /\ FairPlayer

\* The two programs' paths from the microphone to the channel.
InitCapture ==
    /\ prog \in {"main", "comp"}
    /\ InitMain /\ InitApp /\ InitComp /\ IdleResample

NextCapture == NextMain \/ NextCompCapture

SpecCapture == InitCapture /\ [][NextCapture]_vars

\* One resampler of the component applied to one frame at one context rate.
InitOnlyResample ==
    /\ prog = "resample"
    /\ InitMain /\ InitApp /\ InitComp /\ InitResample

SpecResample == InitOnlyResample /\ [][NextResample]_vars

\* The page of app.py without inbound messages: buttons, socket events,
\* getUserMedia and the audio callbacks.
NextAppSession ==
    \/ ClickStart \/ ClickStop
    \/ \E s \in Sockets : SockOpen(s)
    \/ \E s \in Sockets : MicGranted(s)
    \/ \E s \in Sockets : MicDenied(s)
    \/ \E s \in Sockets : SockFail(s)
    \/ \E s \in Sockets : SockClose(s)
    \/ \E p \in Sockets : AudioProcess(p)

SpecAppSession == InitOnlyApp /\ [][NextAppSession]_vars

\* ==================================================================== claims

IsPrefix(a, b) == Len(a) <= Len(b) /\ SubSeq(b, 1, Len(a)) = a

RECURSIVE Ids(_)
Ids(q) == IF q = <<>> THEN <<>> ELSE <<Head(q).id>> \o Ids(Tail(q))

Count(q, x) == Cardinality({i \in DOMAIN q : q[i] = x})

\* C1: in the component's playback queue every source starts no earlier than
\* the end of the source started before it (start + duration), and no earlier
\* than the audio clock at the moment it was scheduled.
C1_ScheduleMonotone ==
    \A i \in 1..Len(player.sources) :
       LET src == player.sources[i] IN
       /\ src.start >= src.at
       /\ i > 1 => src.start >= player.sources[i - 1].start
                                + player.sources[i - 1].dur

\* Three buffers started: the second back to back with the first, the third
\* after an underrun.
C1_Witness ==
    /\ Len(player.sources) = 3
    /\ player.sources[2].start
         = player.sources[1].start + player.sources[1].dur
    /\ player.sources[3].start
         > player.sources[2].start + player.sources[2].dur

\* C2: in app.py at most one chunk plays at a time, and a chunk of a later
\* message does not play before every earlier message's handler has finished.
C2_NoOverlap ==
    /\ Cardinality(playing) <= 1
    /\ \A c \in playing : \A k \in Msgs : k < c[1] => handlers[k].pc = "done"

\* C3: every audio chunk received is submitted once and in arrival order: in
\* main.py the ids written are the ids delivered, except for the parts of the
\* current response still to handle; in the component the chunks received are
\* the sources started followed by the buffers still queued.
C3_SubmittedInOrder ==
    /\ IsPrefix(written, delivered)
    /\ recvPc \in {"wait", "parts", "write"} =>
         delivered = written
                     \o AudioIds(IF recvPc = "write" THEN Tail(parts) ELSE parts)
    /\ received = Ids(player.sources) \o Ids(player.audioQueue)

\* Two buffers started and a third one waiting in the queue.
C3_Witness ==
    /\ prog = "comp"
    /\ Len(player.sources) = 2
    /\ Len(player.audioQueue) = 1

\* The first failure of the session was a channel error met by a loop.
ChannelErrorFirst == errors # <<>> /\ errors[1].cause = "channel"

\* C4: once a loop of main.py has met a channel error, neither loop reads a
\* frame, takes a response or writes a chunk any more, and that error stays
\* the only one reported.
C4_ErrorStopsBothLoops ==
    [][ChannelErrorFirst =>
         /\ captured' = captured /\ nresp' = nresp /\ written' = written
         /\ Len(errors') = 1]_vars

Before(q, x, y) ==
    \A i \in DOMAIN q : q[i] = y => \E j \in 1..(i - 1) : q[j] = x

\* C5: teardown closes the microphone, then the speaker, then the channel: in
\* main.py the session is closed only after both streams were closed, and a
\* stopConversation() of app.py that releases the microphone and closes the
\* socket does so in this order.
C5_CloseOrder ==
    [][/\ Before(closeLog', "input_stream", "session")
       /\ Before(closeLog', "output_stream", "session")
       /\ LET added == SubSeq(app'.log, Len(app.log) + 1, Len(app'.log)) IN
          \A i, j \in DOMAIN added :
             added[i][1] = "ws" /\ added[j][1] = "mediaStream" => j < i]_vars

\* C6: every resource gets one close call at most, whatever the sequence of
\* stop triggers: no stream of main.py is stopped or closed twice, PyAudio is
\* terminated once, and no media stream or socket of app.py is closed twice.
C6_ClosedOnce ==
    /\ \A r \in {"input_stream", "output_stream", "session", "audio"} :
          Count(closeLog, r) <= 1
    /\ \A i, j \in DOMAIN app.log : app.log[i] = app.log[j] => i = j

\* C7: in app.py, once stopConversation() has run and no handler is pending
\* any more, mediaStream, audioContext, processor and ws are all null.
C7_NothingLeftOpen ==
    ( /\ app.stopped
      /\ \A s \in Sockets : app.onopenPc[s] # "awaitMic"
      /\ \A m \in Msgs : handlers[m].pc \in {"none", "done"} )
    => /\ app.mediaStream = 0
       /\ app.audioContext = 0
       /\ app.processor = 0
       /\ app.ws = 0

\* C8: in app.py no frame is sent by onaudioprocess after stopConversation()
\* has run, until startConversation() has created a new socket.
C8_NoSendAfterStop == ~app.sentAfterStop

\* Frames were sent, then the page was stopped while an onopen handler was
\* waiting for the microphone; the handler has since set isRunning and left a
\* live processor, whose callbacks find ws null.
C8_Witness ==
    /\ app.stopped
    /\ app.isRunning
    /\ app.liveProc # {}
    /\ app.frames > 0

\* C9: a microphone that cannot be acquired puts the session into a reported
\* error state: in app.py the step in which setupAudio() rejects leaves the
\* status 'error' and the start button enabled; in the component the step in
\* which getUserMedia rejects leaves status-error and no WebSocket.
C9_MicFailureReported ==
    [][/\ \A s \in Sockets :
            app.onopenPc[s] = "awaitMic" /\ app'.onopenPc[s] = "micDenied"
            => app'.status = "error" /\ ~app'.startDisabled
       /\ compPc = "getUserMedia" /\ compPc' = "failed"
            => /\ compStatus' = "status-error"
               /\ websocket' = 0
               /\ \A s \in CompSockets : wsState'[s] = "NEW"]_vars

\* C10: when run() of main.py has returned or propagated an exception, no
\* stream is open and PyAudio has been terminated.
C10_StreamsClosedOnExit ==
    runPc \in {"returned", "raised", "cancelled"}
    => /\ input_stream # "open"
       /\ output_stream # "open"
       /\ Count(closeLog, "audio") >= 1

\* ---- C11
\* Every channel error during streaming is reported at least once: when a
\* session.send of the send loop has raised and the loop has gone on past its
\* handling, a "Send Error" has been printed, also when the fallback call
\* that followed has succeeded; and when the receive loop has ended on an
\* exception, a "Receive Error" has been printed.
C11_ChannelErrorReported ==
    prog = "main" =>
      /\ \A i \in DOMAIN sent :
            (sent[i].raised /\ i < Len(sent)) =>
               \E k \in DOMAIN errors : errors[k].msg = "Send Error"
      /\ recvPc = "done" =>
            \E k \in DOMAIN errors : errors[k].msg = "Receive Error"

\* ---- C12
\* The core never retries and never reconnects on its own: in main.py a frame
\* whose call has raised is not handed to the session again, and in the
\* component no WebSocket is created after one has closed.
C12_NoRetryNoReconnect ==
    /\ prog = "main" =>
          \A i, j \in DOMAIN sent :
             (i < j /\ sent[i].raised) => sent[j].frame # sent[i].frame
    /\ prog = "comp" =>
          \A s, t \in CompSockets :
             (wsState[s] = "CLOSED" /\ s < t) => wsState[t] = "NEW"

\* ---- C13
\* Every captured frame is forwarded: in app.py and in the component every
\* invocation of onaudioprocess has passed its frame to the socket's send,
\* whatever the state of the socket.
C13_EveryFrameForwarded ==
    /\ prog = "app" => app.frames = app.callbacks
    /\ prog = "comp" => Len(wsSent) = processed

\* ---- C14
\* Frames are transmitted in capture order: no call that carries a frame
\* comes after a call that carries a later frame, the second call for a frame
\* whose session.send raised included, whatever the receive loop does in
\* between; and the component sends its frames in the order of the callbacks.
C14_CaptureOrder ==
    /\ prog = "main" =>
          \A i, j \in DOMAIN sent : i < j => sent[i].frame <= sent[j].frame
    /\ prog = "comp" =>
          \A i, j \in DOMAIN wsSent : i < j => wsSent[i] < wsSent[j]

\* The first frame went out twice (send raised, then the fallback), the
\* second frame after it, and the receive loop has written audio meanwhile.
C14_Witness ==
    /\ prog = "main" /\ Len(sent) >= 3 /\ written # <<>>
    /\ sent[1].raised /\ sent[2].via = "send_realtime_input"
    /\ sent[3].frame > sent[2].frame

\* ---- C15
\* Inbound messages are handled strictly in delivery order: the handling of
\* a message is complete (all its text appended, all its audio played) before
\* any part of the next message is handled. On the page: an invocation of
\* ws.onmessage has started only if the one before it is done. In main.py:
\* the loop waits for the next response only with no part left.
C15_InDeliveryOrder ==
    /\ prog = "app" =>
          \A m \in Msgs :
             (m + 1 \in Msgs /\ handlers[m + 1].pc # "none") =>
                handlers[m].pc = "done"
    /\ prog = "main" => (recvPc = "wait" => parts = <<>>)

\* ---- C16
\* The two loops of main.py never block each other: while the send loop is
\* suspended in the microphone read, in session.send or in the fallback, the
\* receive loop can take the next response, go through its parts and get its
\* write back; while the receive loop is suspended waiting for a response
\* or in output_stream.write, the send loop can get its read back and have
\* its send or fallback return.
C16_LoopsDoNotBlock ==
    (prog = "main" /\ runPc = "gather" /\ is_running) =>
      /\ sendPc \in {"read", "send", "fallback"} =>
            /\ (recvPc = "wait" /\ nresp < MaxResponses) =>
                  ENABLED RecvResponse
            /\ (recvPc = "parts" /\ parts # <<>>) => ENABLED RecvPart
            /\ recvPc = "write" => ENABLED RecvWriteReturn
      /\ recvPc \in {"wait", "write"} =>
            /\ (sendPc = "read" /\ captured < MaxFrames) => ENABLED SendRead
            /\ sendPc = "send" => ENABLED SendSend
            /\ sendPc = "fallback" => ENABLED SendFallbackOk

\* The send loop is still in its first microphone read and the receive loop
\* has meanwhile taken a response and is in output_stream.write.
C16_Witness ==
    /\ prog = "main" /\ runPc = "gather"
    /\ sendPc = "read" /\ captured = 0
    /\ recvPc = "write" /\ written # <<>>

\* ---- C17
\* The error state of the page is terminal: when ws.onerror has run the
\* status is "error", and a status "error" changes only when the user starts
\* a new conversation (which sets "connecting").
C17_ErrorIsTerminal ==
    [][prog = "app" =>
         /\ app'.onerrors > app.onerrors => app'.status = "error"
         /\ (app.status = "error" /\ app'.status # "error") =>
               app'.status = "connecting"]_vars

\* ---- C18
\* A chunk that cannot be decoded or buffered is dropped and the session
\* goes on: in the component the player is as it was; on the page the
\* handler goes on to the part after the one whose decodeAudioData rejected;
\* in main.py the receive loop leaves output_stream.write (unless cancelled)
\* towards the rest of the parts, also when the write raised.
C18_MalformedChunkDropped ==
    [][/\ (prog = "comp" /\ dropped' > dropped) => player' = player
       /\ prog = "app" =>
             \A m \in Msgs :
                (handlers[m].pc = "decode"
                   /\ handlers'[m].pc \notin {"decode", "playing"}) =>
                   handlers'[m].i > handlers[m].i
       /\ (prog = "main" /\ recvPc = "write"
              /\ recvPc' \notin {"write", "cancelled"}) =>
             recvPc' = "parts"]_vars

\* ---- C19
\* Both resamplers of the component map output index i to the input sample
\* at floor(i * input_rate / target_rate), and that index lies within the
\* input: capture from the context rate to 16000, playback from 24000 to the
\* context rate.
C19_IndexMapping ==
    /\ path = "capture" =>
          \A i \in 0..(Len(outputData) - 1) :
             LET k == (i * sampleRate) \div targetSampleRate
             IN k < Len(inputData) /\ outputData[i + 1] = inputData[k + 1]
    /\ path = "playback" =>
          \A i \in 0..(Len(outputData) - 1) :
             LET k == (i * geminiSampleRate) \div sampleRate
             IN k < Len(inputData) /\ outputData[i + 1] = inputData[k + 1]

\* round(n * rOut / rIn) for non-negative n.
Round(n, rOut, rIn) == (2 * n * rOut + rIn) \div (2 * rIn)

Within1(a, b) == a - b \in {0 - 1, 0, 1}

\* ---- C20
\* The number of output samples is within 1 of round(n * r_out / r_in):
\* capture with r_in the context rate and r_out 16000, playback with r_in
\* 24000 and r_out the context rate.
C20_OutputLength ==
    /\ path = "capture" =>
          Within1(Len(outputData),
                  Round(Len(inputData), targetSampleRate, sampleRate))
    /\ path = "playback" =>
          Within1(Len(outputData),
                  Round(Len(inputData), sampleRate, geminiSampleRate))

\* ---- C21
\* When the source rate equals the target rate the resampling step returns
\* the frame unchanged, same length and same sample at every index: the
\* capture path at a context rate of 16000, the playback path at 24000.
C21_EqualRatesIdentity ==
    /\ (path = "capture" /\ sampleRate = targetSampleRate) =>
          outputData = inputData
    /\ (path = "playback" /\ sampleRate = geminiSampleRate) =>
          outputData = inputData

\* The playback path has run on a frame of several samples at 24000.
C21_Witness ==
    /\ path = "playback" /\ sampleRate = geminiSampleRate
    /\ Len(inputData) >= 2 /\ Len(outputData) >= 2

\* ---- C22
\* The "Bot:" label is printed exactly once per turn that has text, together
\* with the first text of the turn: the line printed since the last newline
\* has one label if it has text and none otherwise; first_part is true at
\* the start, is cleared only by a step that prints the label and a text,
\* and is set again only, and always, by the step that ends the handling of
\* a response with turn_complete.
C22_LabelOncePerTurn ==
    /\ [](prog = "main" =>
            /\ printed.labels = (IF printed.text THEN 1 ELSE 0)
            /\ first_part = ~printed.text)
    /\ [][prog = "main" =>
            /\ (first_part /\ ~first_part') =>
                  (printed'.labels = printed.labels + 1 /\ printed'.text)
            /\ (~first_part /\ first_part') =>
                  (recvPc = "parts" /\ parts = <<>> /\ turn_complete)
            /\ (recvPc = "parts" /\ parts = <<>> /\ turn_complete
                   /\ recvPc' = "wait") => first_part']_vars

\* The second response has had its text printed under a single label and
\* carries turn_complete, which the next step of the loop will act on.
C22_Witness ==
    /\ prog = "main" /\ nresp = 2 /\ recvPc = "parts" /\ parts = <<>>
    /\ turn_complete /\ ~first_part
    /\ printed.labels = 1 /\ printed.text

\* ---- C23
\* currentSource.stop() in playNextInQueue never cuts a buffer short: no
\* source is ever stopped before its end, and the source that currentSource
\* named when a new source was created (if any) had played to its end.
C23_StopNeverCuts ==
    prog = "comp" =>
      \A i \in DOMAIN player.sources :
         LET src == player.sources[i] IN
         /\ src.st # "cut"
         /\ src.prev # 0 =>
               /\ player.sources[src.prev].st = "ended"
               /\ player.sources[src.prev].start
                    + player.sources[src.prev].dur <= src.at

\* Three chunks arrived in a burst; the second source was created from the
\* onended of the first, with currentSource still naming the first, and the
\* third chunk waits in the queue.
C23_Witness ==
    /\ prog = "comp" /\ Len(player.sources) = 2
    /\ player.sources[2].prev = 1 /\ player.sources[2].st = "live"
    /\ player.audioQueue # <<>>

\* The buffer of chunk id waits in audioQueue.
Queued(id) == \E k \in DOMAIN player.audioQueue : player.audioQueue[k].id = id

\* A source has been started for chunk id.
Started(id) == \E k \in DOMAIN player.sources : player.sources[k].id = id

\* The sources whose onended has not fired.
Outstanding == {k \in DOMAIN player.sources : player.sources[k].st # "ended"}

\* A source plays on past the last tick of the clock of the model.
PastHorizon ==
    \E k \in Outstanding :
       player.sources[k].start + player.sources[k].dur > MaxTime

\* ---- C24
\* The queue never stalls: while isPlaying is true a source is outstanding,
\* and it is currentSource; while isPlaying is false the queue is empty; and,
\* with every source firing onended, every buffer pushed onto audioQueue is
\* eventually started (unless a source is still playing when the clock of
\* the model ends).
C24_QueueDrains ==
    /\ [](prog = "comp" =>
            /\ player.isPlaying => Outstanding = {player.currentSource}
            /\ ~player.isPlaying => player.audioQueue = <<>>)
    /\ \A id \in 1..MaxChunks : Queued(id) ~> (Started(id) \/ PastHorizon)

\* All the chunks of the bound arrived while the first was playing, and
\* each has been started in turn.
C24_Witness ==
    /\ prog = "comp" /\ Len(player.sources) = MaxChunks
    /\ player.audioQueue = <<>>
    /\ \A k \in 2..MaxChunks : player.sources[k].prev = k - 1

\* ---- C25
\* On the page the Start and Stop buttons are never both enabled, and Stop
\* is enabled only while the global ws is non-null.
C25_ButtonsExclusive ==
    prog = "app" =>
      /\ app.startDisabled \/ app.stopDisabled
      /\ ~app.stopDisabled => app.ws # 0

\* The sockets of the component that are CONNECTING or OPEN.
LiveSockets == {s \in CompSockets : wsState[s] \in {"CONNECTING", "OPEN"}}

\* ---- C26
\* In the component at most one WebSocket is CONNECTING or OPEN and at most
\* one reconnect timer is pending at any time (and never both a live socket
\* and a pending timer).
C26_OneSocketOneTimer ==
    prog = "comp" =>
      /\ Cardinality(LiveSockets) <= 1
      /\ timers <= 1
      /\ Cardinality(LiveSockets) + timers <= 1

\* The first socket has closed, its timer has fired and the socket created
\* by the reconnect is open.
C26_Witness ==
    /\ prog = "comp" /\ wsState[1] = "CLOSED" /\ timers = 0
    /\ websocket = 2 /\ wsState[2] = "OPEN"
====
